---- MODULE Spec2Model ----
(***************************************************************************)
(* Model of ray_tracer.py: the render driver `main`, the shader            *)
(* `ray_color` and the pixel serializer `write_color`.                     *)
(*                                                                         *)
(* Python floats are modelled as fixed-point numbers: the integer x stands *)
(* for the real x / Scale.  Every product and quotient is rounded down to  *)
(* the grid, the square root is the integer square root.  Vectors          *)
(* (np.ndarray of three floats) are 3-tuples of such numbers.              *)
(***************************************************************************)
EXTENDS Integers, Sequences, FiniteSets, TLC

VARIABLES
    pc,            \* position of the running function
    aspect_ratio,  \* main: aspect_ratio as a fraction [num, den]
    image_width,   \* main: image_width
    image_height,  \* main: image_height
    row_it,        \* main: rows consumed from reversed(range(image_height))
    col_it,        \* main: columns consumed from range(image_width)
    i, j,          \* main: loop variables
    u, v,          \* main: normalized pixel coordinates
    ray,           \* the Ray last built / the argument of ray_color
    color,         \* the colour last returned by ray_color / argument of write_color
    image_file,    \* contents of image.ppm: the sequence of strings written
    is_open,       \* whether the file handle is open
    written,       \* history: the pixels <<i, j>> shaded and written by this run
    runs,          \* number of runs of main started so far
    prev_file      \* history: contents of image.ppm left by the previous run

vars == <<pc, aspect_ratio, image_width, image_height, row_it, col_it, i, j,
          u, v, ray, color, image_file, is_open, written, runs, prev_file>>

----------------------------------------------------------------------------
(* Bounds of the model *)

MaxWidth == 4
MaxRuns == 2

\* aspect ratios the image is rendered with (16/9 is the program's)
AspectRatios == { [num |-> 1, den |-> 1], [num |-> 16, den |-> 9], [num |-> 1, den |-> 2] }

----------------------------------------------------------------------------
(* Float arithmetic in fixed point *)

Scale == 1000

Float(n) == n * Scale
Mul(x, y) == (x * y) \div Scale
Div(x, y) == (x * Scale) \div y

\* int(x) for a float given as the fraction num / den, den > 0: truncation toward zero
int(num, den) == IF num >= 0 THEN num \div den ELSE -((-num) \div den)

RECURSIVE isqrt(_)
\* largest r with r * r <= n: twice the root of n \div 4, or one more
isqrt(n) ==
    IF n < 2 THEN n
    ELSE CHOOSE r \in { 2 * q + d : q \in { isqrt(n \div 4) }, d \in {0, 1} } :
            r * r <= n /\ n < (r + 1) * (r + 1)

\* square root of a float
sqrt(x) == isqrt(x * Scale)

VAdd(a, b) == << a[1] + b[1], a[2] + b[2], a[3] + b[3] >>
VSub(a, b) == << a[1] - b[1], a[2] - b[2], a[3] - b[3] >>
VScale(s, a) == << Mul(s, a[1]), Mul(s, a[2]), Mul(s, a[3]) >>
VDiv(a, s) == << Div(a[1], s), Div(a[2], s), Div(a[3], s) >>
dot(a, b) == Mul(a[1], b[1]) + Mul(a[2], b[2]) + Mul(a[3], b[3])

\* np.linalg.norm: Euclidean length, computed on the exact sum of squares
norm(a) == isqrt(a[1] * a[1] + a[2] * a[2] + a[3] * a[3])

----------------------------------------------------------------------------
(* Ray and hit_sphere (modules ray and hittables) *)

Ray(o, d) == [origin |-> o, direction |-> d]

\* ray(t): the point at parameter t
point_at(r, t) == VAdd(r.origin, VScale(t, r.direction))

NoHit == -Scale

hit_sphere(center, radius, r) ==
    LET oc == VSub(r.origin, center)
        a == dot(r.direction, r.direction)
        b == 2 * dot(oc, r.direction)
        c == dot(oc, oc) - Mul(radius, radius)
        discriminant == Mul(b, b) - Mul(4 * a, c)
    IN  IF discriminant < 0 THEN NoHit
        ELSE Div((-b) - sqrt(discriminant), 2 * a)

----------------------------------------------------------------------------
(* write_color *)

ColorScale == 255999   \* 255.999

\* write_color rounding to the nearest integer instead of truncating
channel_int_rounded(c) == int(ColorScale * c + (Scale * Scale) \div 2, Scale * Scale)

channel_int(c) == int(ColorScale * c, Scale * Scale)

rgb_string(pixel_color) ==
    << " ", channel_int(pixel_color[1]),
       " ", channel_int(pixel_color[2]),
       " ", channel_int(pixel_color[3]), "\n" >>

write_color(out_file, pixel_color) == Append(out_file, rgb_string(pixel_color))

----------------------------------------------------------------------------
(* ray_color *)

sphere_origin == << 0, 0, -Scale >>
sphere_radius == 500
Half == 500
WHITE == << 1000, 1000, 1000 >>
SKY_BLUE == << 500, 700, 1000 >>

\* the hit test accepting t = 0
hit_branch_nonnegative(t) == t >= 0

hit_branch(t) == t > 0

\* the normal shown without the mapping from [-1,1] to [0,1]
normal_color_unmapped(r, t) ==
    LET normal == VSub(point_at(r, t), << 0, 0, -Scale >>)
    IN  VDiv(normal, norm(normal))

normal_color(r, t) ==
    LET normal == VSub(point_at(r, t), << 0, 0, -Scale >>)
        unit_normal == VDiv(normal, norm(normal))
    IN  VScale(Half, << unit_normal[1] + Scale, unit_normal[2] + Scale, unit_normal[3] + Scale >>)

\* the gradient with the two colours swapped
background_color_swapped(r) ==
    LET unit_direction == VDiv(r.direction, norm(r.direction))
        t == Mul(Half, unit_direction[2]) + Half
    IN  VAdd(VScale(Scale - t, SKY_BLUE), VScale(t, WHITE))

background_color(r) ==
    LET unit_direction == VDiv(r.direction, norm(r.direction))
        t == Mul(Half, unit_direction[2]) + Half
    IN  VAdd(VScale(Scale - t, WHITE), VScale(t, SKY_BLUE))

ray_color(r) ==
    LET t == hit_sphere(sphere_origin, sphere_radius, r)
    IN  IF hit_branch(t) THEN normal_color(r, t) ELSE background_color(r)

----------------------------------------------------------------------------
(* main: image and camera *)

aspect_float == (Scale * aspect_ratio.num) \div aspect_ratio.den

\* int(image_width / aspect_ratio)
height_of(width) == int(width * aspect_ratio.den, aspect_ratio.num)

viewport_height == 2000
viewport_width == Mul(aspect_float, viewport_height)
focal_length == 1000

origin == << 0, 0, 0 >>
horizontal == << viewport_width, 0, 0 >>
vertical == << 0, viewport_height, 0 >>
lower_left_corner ==
    VSub(VSub(VSub(origin, VDiv(horizontal, Float(2))), VDiv(vertical, Float(2))),
         << 0, 0, focal_length >>)

\* range(1, n): the first column is skipped
range_from_one(n) == [k \in 1..(n - 1) |-> k]

\* range(n), as the sequence of the values it yields
range(n) == [k \in 1..n |-> k - 1]

\* range(n) in place of reversed(range(n)): the rows ascending
ascending_range(n) == [k \in 1..n |-> k - 1]

\* reversed(range(n)), as the sequence of the values it yields
reversed_range(n) == [k \in 1..n |-> n - k]

\* the outcome of a division that raises ZeroDivisionError
ZeroDivisionError == -1
\* i / image_width instead of i / (image_width - 1)
true_div_by_count(n, d) == Div(Float(n), Float(d + 1))

\* a division that yields 0 instead of raising
true_div_silent(n, d) == IF d = 0 THEN 0 ELSE Div(Float(n), Float(d))

\* n / d on ints: a float, or ZeroDivisionError when d = 0
true_div(n, d) == IF d = 0 THEN ZeroDivisionError ELSE Div(Float(n), Float(d))

camera_ray(uu, vv) ==
    Ray(origin,
        VSub(VAdd(VAdd(lower_left_corner, VScale(uu, horizontal)), VScale(vv, vertical)),
             origin))

\* open("image.ppm", "w+"): the file is truncated
\* open("image.ppm", "a+"): the file is kept and appended to
open_a_plus(contents) == contents

open_w_plus(contents) == << >>

header == << "P3", "\n", image_width, " ", image_height, "\n", 255, "\n" >>

NoRay == Ray(<< 0, 0, 0 >>, << 0, 0, 0 >>)

----------------------------------------------------------------------------
(* main: the run *)

\* the locals of a fresh call of main
FreshLocals ==
    /\ row_it = 0 /\ col_it = 0 /\ i = 0 /\ j = 0 /\ u = 0 /\ v = 0
    /\ ray = NoRay /\ color = << 0, 0, 0 >> /\ written = << >>

Init ==
    /\ pc = "start"
    /\ aspect_ratio \in AspectRatios
    /\ image_width \in 1..MaxWidth
    /\ image_height = height_of(image_width)
    /\ FreshLocals
    /\ image_file = << >>
    /\ is_open = FALSE
    /\ runs = 1
    /\ prev_file = << >>

\* with open("image.ppm", "w+") as image_file
Open ==
    /\ pc = "start"
    /\ image_file' = open_w_plus(image_file)
    /\ is_open' = TRUE
    /\ pc' = "header"
    /\ UNCHANGED <<aspect_ratio, image_width, image_height, row_it, col_it, i, j,
                   u, v, ray, color, written, runs, prev_file>>

\* image_file.write(header)
WriteHeader ==
    /\ pc = "header"
    /\ image_file' = Append(image_file, header)
    /\ pc' = "rows"
    /\ UNCHANGED <<aspect_ratio, image_width, image_height, row_it, col_it, i, j,
                   u, v, ray, color, is_open, written, runs, prev_file>>

\* for j in reversed(range(image_height)): the next row, or the end of the
\* loop and of the with block, which closes the file
NextRow ==
    /\ pc = "rows"
    /\ IF row_it < Len(reversed_range(image_height))
       THEN /\ j' = reversed_range(image_height)[row_it + 1]
            /\ row_it' = row_it + 1
            /\ col_it' = 0
            /\ pc' = "cols"
            /\ UNCHANGED is_open
       ELSE /\ is_open' = FALSE
            /\ pc' = "done"
            /\ UNCHANGED <<j, row_it, col_it>>
    /\ UNCHANGED <<aspect_ratio, image_width, image_height, i,
                   u, v, ray, color, image_file, written, runs, prev_file>>

\* for i in range(image_width): one run of the loop body
Pixel ==
    /\ pc = "cols"
    /\ col_it < Len(range(image_width))
    /\ i' = range(image_width)[col_it + 1]
    /\ LET uu == true_div(i', image_width - 1)
           vv == true_div(j, image_height - 1)
       IN  IF uu = ZeroDivisionError
           THEN \* u = ... raises; the with block closes the file
                /\ pc' = "error"
                /\ is_open' = FALSE
                /\ UNCHANGED <<u, v, ray, color, image_file, written, col_it>>
           ELSE IF vv = ZeroDivisionError
           THEN \* v = ... raises; the with block closes the file
                /\ u' = uu
                /\ pc' = "error"
                /\ is_open' = FALSE
                /\ UNCHANGED <<v, ray, color, image_file, written, col_it>>
           ELSE /\ u' = uu
                /\ v' = vv
                /\ ray' = camera_ray(uu, vv)
                /\ color' = ray_color(ray')
                /\ image_file' = write_color(image_file, color')
                /\ written' = Append(written, << i', j >>)
                /\ col_it' = col_it + 1
                /\ UNCHANGED <<pc, is_open>>
    /\ UNCHANGED <<aspect_ratio, image_width, image_height, row_it, j, runs, prev_file>>

\* the loop over the columns starting over instead of ending
EndRow_restart ==
    /\ pc = "cols"
    /\ col_it = Len(range(image_width))
    /\ col_it' = 0
    /\ UNCHANGED <<pc, aspect_ratio, image_width, image_height, row_it, i, j,
                   u, v, ray, color, image_file, is_open, written, runs, prev_file>>

\* range(image_width) is exhausted: back to the loop over the rows
EndRow ==
    /\ pc = "cols"
    /\ col_it = Len(range(image_width))
    /\ pc' = "rows"
    /\ UNCHANGED <<aspect_ratio, image_width, image_height, row_it, col_it, i, j,
                   u, v, ray, color, image_file, is_open, written, runs, prev_file>>

\* main is run again with the same parameters; image.ppm stays on disk
Rerun ==
    /\ pc \in {"done", "error"}
    /\ runs < MaxRuns
    /\ runs' = runs + 1
    /\ prev_file' = image_file
    /\ pc' = "start"
    /\ row_it' = 0 /\ col_it' = 0 /\ i' = 0 /\ j' = 0 /\ u' = 0 /\ v' = 0
    /\ ray' = NoRay /\ color' = << 0, 0, 0 >> /\ written' = << >>
    /\ UNCHANGED <<aspect_ratio, image_width, image_height, image_file, is_open>>

Next == Open \/ WriteHeader \/ NextRow \/ Pixel \/ EndRow \/ Rerun

Spec == Init /\ [][Next]_vars

----------------------------------------------------------------------------
(* ray_color applied to one ray *)

TestCoordinates == { -Scale, 0, Scale }
TestOrigins == { << 0, 0, 0 >>, << 0, 0, -500 >>, << 0, 0, -1000 >>, << 0, 0, -2000 >> }
TestDirections ==
    { d \in TestCoordinates \X TestCoordinates \X TestCoordinates : d # << 0, 0, 0 >> }

\* the variables of main, unused by the calls of a single function
MainIdle ==
    /\ aspect_ratio = [num |-> 16, den |-> 9]
    /\ image_width = 1 /\ image_height = 0
    /\ row_it = 0 /\ col_it = 0 /\ i = 0 /\ j = 0 /\ u = 0 /\ v = 0
    /\ written = << >> /\ runs = 1 /\ prev_file = << >>

InitShade ==
    /\ pc = "shade"
    /\ ray \in { Ray(o, d) : o \in TestOrigins, d \in TestDirections }
    /\ color = << 0, 0, 0 >>
    /\ image_file = << >>
    /\ is_open = FALSE
    /\ MainIdle

\* color = ray_color(ray)
Shade ==
    /\ pc = "shade"
    /\ color' = ray_color(ray)
    /\ pc' = "shaded"
    /\ UNCHANGED <<aspect_ratio, image_width, image_height, row_it, col_it, i, j,
                   u, v, ray, image_file, is_open, written, runs, prev_file>>

NextShade == Shade

SpecShade == InitShade /\ [][NextShade]_vars

----------------------------------------------------------------------------
(* write_color applied to one colour *)

\* colours whose red channel takes every value of [0,1], and two out of range
TestColors ==
    { << c, (c + Half) % (Scale + 1), Scale - c >> : c \in 0..Scale }
        \cup { << -1, 1004, 2 * Scale >>, << -Scale, 0, Scale >> }

InitWrite ==
    /\ pc = "write"
    /\ color \in TestColors
    /\ ray = NoRay
    /\ image_file = << >>
    /\ is_open = TRUE
    /\ MainIdle

\* write_color(image_file, color)
WriteColor ==
    /\ pc = "write"
    /\ image_file' = write_color(image_file, color)
    /\ pc' = "wrote"
    /\ UNCHANGED <<aspect_ratio, image_width, image_height, row_it, col_it, i, j,
                   u, v, ray, color, is_open, written, runs, prev_file>>

NextWrite == WriteColor

SpecWrite == InitWrite /\ [][NextWrite]_vars

----------------------------------------------------------------------------
(* Properties of the render (Spec, FairSpec) *)

Renderable == image_width >= 2 /\ image_height >= 2

\* image_file is the output of the current run (and not what an earlier run left)
OutputOfRun == is_open \/ pc \in {"done", "error"}

IsPixelLine(line) ==
    /\ Len(line) = 7
    /\ line[1] = " " /\ line[3] = " " /\ line[5] = " " /\ line[7] = "\n"
    /\ line[2] \in Int /\ line[4] \in Int /\ line[6] \in Int

\* the line main writes for the pixel p = <<i, j>>
PixelLine(p) ==
    rgb_string(ray_color(camera_ray(true_div(p[1], image_width - 1),
                                    true_div(p[2], image_height - 1))))

Comes_Before(p, q) == p[2] > q[2] \/ (p[2] = q[2] /\ p[1] < q[1])

\* C1: the pixel lines are written row-major, rows descending and columns
\* ascending: the k-th pixel line (from 0) is the colour of the pixel
\* (k mod W, H-1 - k div W), a pixel with a larger j, or the same j and a
\* smaller i, is written first, and a 2x2 image is written in the order
\* (0,1), (1,1), (0,0), (1,0).
C1_RowMajorOrder ==
    Renderable =>
        /\ OutputOfRun => Len(image_file) >= Len(written)
        /\ \A k \in 0..(Len(written) - 1) :
              /\ written[k + 1] =
                    << k % image_width, image_height - 1 - (k \div image_width) >>
              /\ OutputOfRun => image_file[k + 2] = PixelLine(written[k + 1])
        /\ \A k1, k2 \in 1..Len(written) :
              Comes_Before(written[k1], written[k2]) => k1 < k2
        /\ (image_width = 2 /\ image_height = 2 /\ pc = "done")
              => written = << <<0, 1>>, <<1, 1>>, <<0, 0>>, <<1, 0>> >>

C1_Witness ==
    /\ pc = "done" /\ image_width = 2 /\ image_height = 2
    /\ written = << <<0, 1>>, <<1, 1>>, <<0, 0>>, <<1, 0>> >>

\* C2: the output is the header, written once and first, followed by pixel
\* lines only; inside the loop, with column col_it of row j next,
\* (H-1-j)*W + col_it pixel lines are written, and a completed render
\* leaves the header and exactly W*H pixel lines.
C2_HeaderThenPixels ==
    /\ pc = "header" => image_file = << >>
    /\ (OutputOfRun /\ pc # "header") => (Len(image_file) >= 1 /\ image_file[1] = header)
    /\ OutputOfRun =>
          \A k \in 2..Len(image_file) : IsPixelLine(image_file[k])
    /\ (Renderable /\ pc = "cols") =>
          /\ Len(image_file) - 1 = (image_height - 1 - j) * image_width + col_it
          /\ col_it > 0 => i = col_it - 1
    /\ (Renderable /\ pc = "done") =>
          /\ image_file[1] = header
          /\ Len(image_file) = 1 + image_width * image_height

C2_Witness ==
    /\ Renderable /\ pc = "cols" /\ col_it > 0 /\ j < image_height - 1
    /\ Len(image_file) - 1 = (image_height - 1 - j) * image_width + col_it

\* C3: every colour ray_color returns during a render has its three
\* components in [0,1], and every integer write_color emits is in 0..255.
C3_ChannelsInRange ==
    /\ written # << >> => \A c \in 1..3 : color[c] >= 0 /\ color[c] <= Scale
    /\ OutputOfRun =>
          \A k \in 2..Len(image_file) :
              \A c \in {2, 4, 6} : image_file[k][c] >= 0 /\ image_file[k][c] <= 255

C3_Witness ==
    /\ pc = "cols" /\ written # << >>
    /\ hit_sphere(sphere_origin, sphere_radius, ray) > 0
    /\ \E k \in 2..Len(image_file) : image_file[k][6] = 255
    /\ \A c \in {2, 4, 6} : image_file[Len(image_file)][c] \in 0..255

\* C6: a run of main that follows another with the same parameters leaves
\* the file the first run left: the file is empty after the open, and
\* nothing of the first run shows in the second's output.
C6_RerunIdentical ==
    /\ (runs >= 2 /\ pc = "header") => image_file = << >>
    /\ (runs >= 2 /\ pc \in {"done", "error"}) => image_file = prev_file

C6_Witness ==
    /\ runs = 2 /\ pc = "done" /\ Renderable
    /\ Len(image_file) = 1 + image_width * image_height
    /\ image_file = prev_file

\* C7: right after the loop body has run for the pixel (i, j), u = i/(W-1) and v = j/(H-1) are in
\* [0,1] and the ray goes from origin toward
\* lower_left_corner + u*horizontal + v*vertical - origin, with
\* lower_left_corner = origin - horizontal/2 - vertical/2 - (0,0,focal_length);
\* pixel (0,0) aims at the lower-left corner of the viewport, pixel
\* (W-1,H-1) at the upper-right corner and the first pixel written at the
\* upper-left corner.
C7_CameraRay ==
    (Renderable /\ pc = "cols" /\ col_it > 0) =>
        LET p == written[Len(written)]
            half_w == viewport_width \div 2
            half_h == viewport_height \div 2
        IN  /\ p = << i, j >>
            /\ u >= 0 /\ u <= Scale /\ v >= 0 /\ v <= Scale
            /\ u * (image_width - 1) <= i * Scale
            /\ i * Scale < (u + 1) * (image_width - 1)
            /\ v * (image_height - 1) <= j * Scale
            /\ j * Scale < (v + 1) * (image_height - 1)
            /\ lower_left_corner = << -half_w, -half_h, -focal_length >>
            /\ ray.origin = origin
            /\ ray.direction = << lower_left_corner[1] + Mul(u, viewport_width),
                                  lower_left_corner[2] + Mul(v, viewport_height),
                                  lower_left_corner[3] >>
            /\ p = << 0, 0 >> => ray.direction = lower_left_corner
            /\ p = << image_width - 1, image_height - 1 >>
                  => ray.direction = << half_w, half_h, -focal_length >>
            /\ Len(written) = 1
                  => /\ p = << 0, image_height - 1 >>
                     /\ ray.direction = << -half_w, half_h, -focal_length >>

C7_Witness ==
    /\ Renderable /\ pc = "cols" /\ col_it > 0
    /\ written[Len(written)] = << image_width - 1, image_height - 1 >>
    /\ ray.direction = << viewport_width \div 2, viewport_height \div 2, -focal_length >>

AllPixelsOnce ==
    \A pi \in 0..(image_width - 1), pj \in 0..(image_height - 1) :
        Cardinality({ k \in 1..Len(written) : written[k] = << pi, pj >> }) = 1

RenderComplete ==
    /\ pc = "done" /\ ~is_open
    /\ Len(written) = image_width * image_height
    /\ AllPixelsOnce

\* steps of one iteration of the loop over the rows
RowSteps == image_width + 2

\* number of steps main still takes before it returns
StepsLeft ==
    CASE pc = "start"  -> 3 + image_height * RowSteps
      [] pc = "header" -> 2 + image_height * RowSteps
      [] pc = "rows"   -> 1 + (image_height - row_it) * RowSteps
      [] pc = "cols"   -> 2 + (image_width - col_it) + (image_height - row_it) * RowSteps
      [] OTHER         -> 0

\* some statement of main is ready to run
CanStep ==
    \/ pc \in {"start", "header", "rows"}
    \/ pc = "cols" /\ col_it <= Len(range(image_width))

\* C9: a render of an image of at least 2x2 pixels terminates: every step
\* of main brings its end one step nearer, main is never stuck before its
\* end and raises no error, no pixel is written twice, and main ends with
\* the file closed after exactly W*H shade-and-write steps, one for each
\* pixel of the grid.
C9_Terminates ==
    /\ [](Renderable =>
            /\ pc # "error"
            /\ StepsLeft >= 0
            /\ pc # "done" => CanStep
            /\ \A k1, k2 \in 1..Len(written) : written[k1] = written[k2] => k1 = k2
            /\ pc = "done" => RenderComplete)
    /\ [][(Renderable /\ runs' = runs) => StepsLeft' = StepsLeft - 1]_vars

C9_Witness == Renderable /\ RenderComplete /\ runs = 1

FirstDivisionFails == image_height >= 1 /\ (image_width = 1 \/ image_height = 1)

\* C10: with image_width = 1 or image_height = 1 (image_height >= 1) the
\* first run of the loop body divides by zero: the run ends in the error
\* state, never in "done", with the file closed and holding the header and
\* no pixel line; and the error state is reached in no other case.
C10_ZeroDivisionAborts ==
    /\ pc = "error" =>
          /\ FirstDivisionFails
          /\ image_file = << header >>
          /\ written = << >>
          /\ ~is_open
          /\ row_it = 1 /\ col_it = 0
    /\ FirstDivisionFails =>
          /\ pc # "done"
          /\ written = << >>
          /\ pc = "cols" => col_it = 0

C10_Witness ==
    /\ pc = "error" /\ image_width > 1 /\ image_height = 1
    /\ image_file = << header >> /\ ~is_open

----------------------------------------------------------------------------
(* Properties of ray_color (SpecShade) *)

unit_y(r) == Div(r.direction[2], norm(r.direction))

Missed(r) == hit_sphere(sphere_origin, sphere_radius, r) <= 0

\* C4 as stated: a missing ray pointing straight up is shaded white, one
\* pointing straight down sky blue.
C4_UpWhiteDownBlue ==
    (pc = "shaded" /\ Missed(ray)) =>
        /\ unit_y(ray) = Scale => color = WHITE
        /\ unit_y(ray) = -Scale => color = SKY_BLUE

\* C4 amended: a missing ray pointing straight up (unit direction y = 1) is
\* shaded exactly sky blue (0.5,0.7,1.0), one pointing straight down
\* (y = -1) exactly white (1,1,1).
C4_UpBlueDownWhite ==
    (pc = "shaded" /\ Missed(ray)) =>
        /\ unit_y(ray) = Scale => color = << 500, 700, 1000 >>
        /\ unit_y(ray) = -Scale => color = << 1000, 1000, 1000 >>

C4_Witness ==
    /\ pc = "shaded" /\ Missed(ray)
    /\ unit_y(ray) = Scale /\ color = << 500, 700, 1000 >>

\* C8: ray_color returns the normal colour 0.5*(N + (1,1,1)),
\* N = normalize(ray(t) - (0,0,-1)), exactly when hit_sphere returns t > 0;
\* for every t <= 0 (t = 0, the sentinel -1.0, a negative root) it returns
\* the background gradient.
C8_BranchBySign ==
    pc = "shaded" =>
        LET t == hit_sphere(<< 0, 0, -Scale >>, sphere_radius, ray)
            P == point_at(ray, t)
            n == << P[1], P[2], P[3] + Scale >>
            N == VDiv(n, norm(n))
            s == Mul(Half, unit_y(ray)) + Half
        IN  /\ t > 0 =>
                color = << Mul(Half, N[1] + Scale), Mul(Half, N[2] + Scale),
                           Mul(Half, N[3] + Scale) >>
            /\ t <= 0 =>
                color = << Mul(Scale - s, WHITE[1]) + Mul(s, SKY_BLUE[1]),
                           Mul(Scale - s, WHITE[2]) + Mul(s, SKY_BLUE[2]),
                           Mul(Scale - s, WHITE[3]) + Mul(s, SKY_BLUE[3]) >>

C8_Witness ==
    /\ pc = "shaded"
    /\ hit_sphere(sphere_origin, sphere_radius, ray) = 0
    /\ color = background_color(ray)

----------------------------------------------------------------------------
(* Properties of write_color (SpecWrite) *)

\* C5: write_color writes one line " R G B" with a leading space; for a
\* channel c in [0,1] the integer written is floor(255.999*c), so
\* (0.0, 0.5, 1.0) is written as (0, 127, 255) and 1.0 as 255, not 256.
C5_TruncatedToInteger ==
    pc = "wrote" =>
        LET line == image_file[Len(image_file)]
        IN  /\ Len(image_file) = 1
            /\ IsPixelLine(line)
            /\ \A c \in 1..3 :
                  (color[c] >= 0 /\ color[c] <= Scale) =>
                      /\ line[2 * c] * (Scale * Scale) <= ColorScale * color[c]
                      /\ ColorScale * color[c] < (line[2 * c] + 1) * (Scale * Scale)
                      /\ color[c] = Scale => line[2 * c] = 255
            /\ color = << 0, 500, 1000 >> => line = << " ", 0, " ", 127, " ", 255, "\n" >>

C5_Witness ==
    /\ pc = "wrote" /\ color = << 0, 500, 1000 >>
    /\ image_file = << << " ", 0, " ", 127, " ", 255, "\n" >> >>

====
